---- MODULE Spec2Model ----
(***************************************************************************)
(* Model of snippets/rust-example.rs: the async function get_item, which   *)
(* issues one HTTP GET, awaits the response, awaits the body decoded as    *)
(* an ItemDetail through the derived serde Deserialize, and prints it.     *)
(* The peer and the transport are the environment; the task advances only  *)
(* when it is polled with a resolved future.                               *)
(***************************************************************************)
EXTENDS Integers, Sequences, FiniteSets, TLC

\* ------------------------------------------------------------------ bounds
MaxMembers == 3     \* longest JSON object body, in members
MaxElems == 2       \* longest JSON array body, in elements
MaxWait == 2        \* how long the environment lets one wait stay pending

\* --------------------------------------------------------- wire vocabulary
Str(s) == [type |-> "string", val |-> s]

Values ==
  { Str("x"), Str("y"),
    [type |-> "number", val |-> "123"],
    [type |-> "object", val |-> "{}"] }

Keys == {"data_field", "correct_field_name", "extra"}

Members == [key : Keys, value : Values]

Statuses == {200, 404, 500}

\* The sequences over S of length at most n.
SeqsUpTo(S, n) == UNION { [1..k -> S] : k \in 0..n }

\* A response body as it arrives on the wire.  "empty" is a zero-length body,
\* "html" is text that does not start a JSON value, an "object" with
\* complete = FALSE is JSON text cut off before the closing brace.
Bodies ==
  { [kind |-> "empty"], [kind |-> "html"] }
    \cup { [kind |-> "object", members |-> m, complete |-> c] :
              m \in SeqsUpTo(Members, MaxMembers), c \in BOOLEAN }
    \cup { [kind |-> "array", elems |-> e] : e \in SeqsUpTo(Values, MaxElems) }
    \cup { [kind |-> "scalar", value |-> v] : v \in Values }

NoBody == [kind |-> "none"]

\* ------------------------------------------------------------- ItemDetail
ItemDetail(d, c) == [data_field |-> d, correct_field_name |-> c]

NoItem == [none |-> TRUE]

Ok(v) == [ok |-> TRUE, value |-> v]
Err(e) == [ok |-> FALSE, err |-> e]

None == [some |-> FALSE]
Some(v) == [some |-> TRUE, v |-> v]

\* Deserialize for String: only a JSON string is accepted, taken as it is.
DeserializeString_Lenient(v) == Ok(v.val)

DeserializeString(v) ==
  IF v.type = "string" THEN Ok(v.val) ELSE Err("invalid type")

\* One round of the derived visitor's loop over the members of a JSON object:
\* a required key already seen is an error, a required key takes its value
\* through Deserialize for String, any other key is skipped.
VisitField_DenyUnknown(m, f0, f1) ==
  IF m.key = "data_field" THEN
    IF f0.some THEN Err("duplicate field data_field")
    ELSE LET v == DeserializeString(m.value)
         IN  IF v.ok THEN [ok |-> TRUE, f0 |-> Some(v.value), f1 |-> f1] ELSE v
  ELSE IF m.key = "correct_field_name" THEN
    IF f1.some THEN Err("duplicate field correct_field_name")
    ELSE LET v == DeserializeString(m.value)
         IN  IF v.ok THEN [ok |-> TRUE, f0 |-> f0, f1 |-> Some(v.value)] ELSE v
  ELSE Err("unknown field")

VisitField(m, f0, f1) ==
  IF m.key = "data_field" THEN
    IF f0.some THEN Err("duplicate field data_field")
    ELSE LET v == DeserializeString(m.value)
         IN  IF v.ok THEN [ok |-> TRUE, f0 |-> Some(v.value), f1 |-> f1] ELSE v
  ELSE IF m.key = "correct_field_name" THEN
    IF f1.some THEN Err("duplicate field correct_field_name")
    ELSE LET v == DeserializeString(m.value)
         IN  IF v.ok THEN [ok |-> TRUE, f0 |-> f0, f1 |-> Some(v.value)] ELSE v
  ELSE [ok |-> TRUE, f0 |-> f0, f1 |-> f1]

\* The derived Deserialize visitor over a JSON object: the members are
\* visited in wire order and the first error ends the decoding; text cut off
\* before the closing brace is an error where the next key is asked for; a
\* required key never seen is an error at the end.  No ItemDetail exists
\* until both fields are set.
RECURSIVE VisitMap(_, _, _, _)
VisitMap(ms, complete, f0, f1) ==
  IF ms = <<>> THEN
    IF ~complete THEN Err("EOF while parsing an object")
    ELSE IF ~f0.some THEN Err("missing field data_field")
    ELSE IF ~f1.some THEN Err("missing field correct_field_name")
    ELSE Ok(ItemDetail(f0.v, f1.v))
  ELSE
    LET step == VisitField(Head(ms), f0, f1)
    IN  IF step.ok THEN VisitMap(Tail(ms), complete, step.f0, step.f1) ELSE step

\* The derived visitor over a JSON array: the fields in declaration order.
VisitSeq(es) ==
  IF Len(es) < 1 THEN Err("invalid length 0")
  ELSE LET d == DeserializeString(es[1])
       IN  IF ~d.ok THEN d
           ELSE IF Len(es) < 2 THEN Err("invalid length 1")
           ELSE LET c == DeserializeString(es[2])
                IN  IF ~c.ok THEN c
                    ELSE IF Len(es) > 2 THEN Err("trailing characters")
                    ELSE Ok(ItemDetail(d.value, c.value))

\* Response::json::<ItemDetail>() applied to the complete body bytes.
Decode(b) ==
  CASE b.kind = "empty"  -> Err("EOF while parsing a value")
    [] b.kind = "html"   -> Err("expected value")
    [] b.kind = "scalar" -> Err("invalid type")
    [] b.kind = "array"  -> VisitSeq(b.elems)
    [] b.kind = "object" -> VisitMap(b.members, b.complete, None, None)
    [] OTHER             -> Err("no body")

\* println!("{res:?}"): the derived Debug rendering of the record.
Quoted(s) == "\"" \o s \o "\""
DebugFmt(item) ==
  "ItemDetail { data_field: " \o Quoted(item.data_field)
    \o ", correct_field_name: " \o Quoted(item.correct_field_name) \o " }"

\* ------------------------------------------------------------------ state
VARIABLES
  pc,        \* where get_item is: start, await_send, await_json, print, done, panicked
  gets,      \* number of GET requests issued
  sendFut,   \* the future of reqwest::get: none, pending, ok, err
  jsonFut,   \* the future of Response::json: none, pending, bytes, err
  status,    \* HTTP status of the response received (0: none)
  body,      \* body bytes received
  res,       \* the local res
  stdout,    \* lines printed
  failure,   \* which expect failed: none, RequestError, DecodeError
  panicMsg,  \* the message of the panic that unwound the task
  events,    \* the order in which the steps of this run happened
  waited     \* time the current wait has been pending

vars == <<pc, gets, sendFut, jsonFut, status, body, res, stdout, failure, panicMsg, events, waited>>

Init ==
  /\ pc = "start"
  /\ gets = 0
  /\ sendFut = "none"
  /\ jsonFut = "none"
  /\ status = 0
  /\ body = NoBody
  /\ res = NoItem
  /\ stdout = <<>>
  /\ failure = "none"
  /\ panicMsg = ""
  /\ events = <<>>
  /\ waited = 0

\* Result::expect on an Err: the task panics with the message and unwinds.
Expect(kind, msg) ==
  /\ pc' = "panicked"
  /\ failure' = kind
  /\ panicMsg' = msg

\* reqwest::get("http://localhost:3000/items/1") is called and awaited.
Start ==
  /\ pc = "start"
  /\ pc' = "await_send"
  /\ gets' = gets + 1
  /\ sendFut' = "pending"
  /\ events' = Append(events, "get")
  /\ UNCHANGED <<jsonFut, status, body, res, stdout, failure, panicMsg, waited>>

\* Environment: the peer answers with a status line and headers.
ResponseArrives ==
  /\ pc = "await_send"
  /\ sendFut = "pending"
  /\ sendFut' = "ok"
  /\ \E s \in Statuses : status' = s
  /\ events' = Append(events, "headers")
  /\ waited' = 0
  /\ UNCHANGED <<pc, gets, jsonFut, body, res, stdout, failure, panicMsg>>

\* Environment: the transport fails before any response (connection refused).
ConnectFails ==
  /\ pc = "await_send"
  /\ sendFut = "pending"
  /\ sendFut' = "err"
  /\ events' = Append(events, "refused")
  /\ waited' = 0
  /\ UNCHANGED <<pc, gets, jsonFut, status, body, res, stdout, failure, panicMsg>>

\* Variants of the first poll, each a slip the code does not make: asking
\* again after a failed request, not waiting for the response, leaving a
\* failed request unreported, and failing on an error status.
PollSend_Retry ==
  /\ pc = "await_send"
  /\ sendFut \in {"ok", "err"}
  /\ IF sendFut = "err"
     THEN IF gets < 2
          THEN /\ gets' = gets + 1
               /\ sendFut' = "pending"
               /\ events' = Append(events, "get")
               /\ UNCHANGED <<pc, jsonFut, failure, panicMsg>>
          ELSE /\ Expect("RequestError", "Failed to send request")
               /\ UNCHANGED <<gets, sendFut, jsonFut, events>>
     ELSE /\ pc' = "await_json"
          /\ jsonFut' = "pending"
          /\ events' = Append(events, "json_wait")
          /\ UNCHANGED <<gets, sendFut, failure, panicMsg>>
  /\ UNCHANGED <<status, body, res, stdout, waited>>

PollSend_Eager ==
  /\ pc = "await_send"
  /\ IF sendFut = "err"
     THEN /\ Expect("RequestError", "Failed to send request")
          /\ UNCHANGED <<jsonFut, events>>
     ELSE /\ pc' = "await_json"
          /\ jsonFut' = "pending"
          /\ events' = Append(events, "json_wait")
          /\ UNCHANGED <<failure, panicMsg>>
  /\ UNCHANGED <<gets, sendFut, status, body, res, stdout, waited>>

PollSend_SwallowErr ==
  /\ pc = "await_send"
  /\ sendFut = "ok"
  /\ pc' = "await_json"
  /\ jsonFut' = "pending"
  /\ events' = Append(events, "json_wait")
  /\ UNCHANGED <<gets, sendFut, status, body, res, stdout, failure, panicMsg, waited>>

PollSend_ErrorForStatus ==
  /\ pc = "await_send"
  /\ sendFut \in {"ok", "err"}
  /\ IF sendFut = "err" \/ status >= 400
     THEN /\ Expect("RequestError", "Failed to send request")
          /\ UNCHANGED <<jsonFut, events>>
     ELSE /\ pc' = "await_json"
          /\ jsonFut' = "pending"
          /\ events' = Append(events, "json_wait")
          /\ UNCHANGED <<failure, panicMsg>>
  /\ UNCHANGED <<gets, sendFut, status, body, res, stdout, waited>>

\* The task is polled at the first .await with the future resolved:
\* .expect("Failed to send request"), then .json::<ItemDetail>() is awaited.
PollSend ==
  /\ pc = "await_send"
  /\ sendFut \in {"ok", "err"}
  /\ IF sendFut = "err"
     THEN /\ Expect("RequestError", "Failed to send request")
          /\ UNCHANGED <<jsonFut, events>>
     ELSE /\ pc' = "await_json"
          /\ jsonFut' = "pending"
          /\ events' = Append(events, "json_wait")
          /\ UNCHANGED <<failure, panicMsg>>
  /\ UNCHANGED <<gets, sendFut, status, body, res, stdout, waited>>

\* Environment: the whole body has arrived.
BodyCompletes ==
  /\ pc = "await_json"
  /\ jsonFut = "pending"
  /\ jsonFut' = "bytes"
  /\ \E b \in Bodies : body' = b
  /\ events' = Append(events, "body")
  /\ waited' = 0
  /\ UNCHANGED <<pc, gets, sendFut, status, res, stdout, failure, panicMsg>>

\* Environment: the transport fails while the body is being read.
BodyFails ==
  /\ pc = "await_json"
  /\ jsonFut = "pending"
  /\ jsonFut' = "err"
  /\ events' = Append(events, "body_lost")
  /\ waited' = 0
  /\ UNCHANGED <<pc, gets, sendFut, status, body, res, stdout, failure, panicMsg>>

\* Variants of the second poll: falling back to an empty record instead of
\* failing, and reporting a lost body as a failed request.
PollJson_UnwrapOrDefault ==
  /\ pc = "await_json"
  /\ jsonFut \in {"bytes", "err"}
  /\ LET r == IF jsonFut = "err" THEN Err("error reading the body") ELSE Decode(body)
     IN  res' = IF r.ok THEN r.value ELSE ItemDetail("", "")
  /\ pc' = "print"
  /\ events' = Append(events, "json_done")
  /\ UNCHANGED <<gets, sendFut, jsonFut, status, body, stdout, failure, panicMsg, waited>>

PollJson_BodyErrAsRequest ==
  /\ pc = "await_json"
  /\ jsonFut \in {"bytes", "err"}
  /\ IF jsonFut = "err"
     THEN /\ Expect("RequestError", "Failed to send request")
          /\ UNCHANGED res
     ELSE LET r == Decode(body)
          IN  IF r.ok
              THEN /\ res' = r.value
                   /\ pc' = "print"
                   /\ UNCHANGED <<failure, panicMsg>>
              ELSE /\ Expect("DecodeError", "Fail to parse response")
                   /\ UNCHANGED res
  /\ events' = Append(events, "json_done")
  /\ UNCHANGED <<gets, sendFut, jsonFut, status, body, stdout, waited>>

\* The task is polled at the second .await with the future resolved:
\* the bytes are decoded, then .expect("Fail to parse response").
PollJson ==
  /\ pc = "await_json"
  /\ jsonFut \in {"bytes", "err"}
  /\ LET r == IF jsonFut = "err" THEN Err("error reading the body") ELSE Decode(body)
     IN  IF r.ok
         THEN /\ res' = r.value
              /\ pc' = "print"
              /\ UNCHANGED <<failure, panicMsg>>
         ELSE /\ Expect("DecodeError", "Fail to parse response")
              /\ UNCHANGED res
  /\ events' = Append(events, "json_done")
  /\ UNCHANGED <<gets, sendFut, jsonFut, status, body, stdout, waited>>

\* println!("{res:?}") and return.
Println ==
  /\ pc = "print"
  /\ stdout' = Append(stdout, DebugFmt(res))
  /\ pc' = "done"
  /\ events' = Append(events, "print")
  /\ UNCHANGED <<gets, sendFut, jsonFut, status, body, res, failure, panicMsg, waited>>

\* A variant in which a wait that stays pending is given up.
Tick_Timeout ==
  /\ \/ pc = "await_send" /\ sendFut = "pending"
     \/ pc = "await_json" /\ jsonFut = "pending"
  /\ IF waited < 1
     THEN /\ waited' = waited + 1
          /\ UNCHANGED <<pc, failure, panicMsg>>
     ELSE /\ Expect("RequestError", "Failed to send request")
          /\ UNCHANGED waited
  /\ UNCHANGED <<gets, sendFut, jsonFut, status, body, res, stdout, events>>

\* Environment: time passes while the task is suspended on a pending
\* future.  The code sets no timeout, so nothing else happens.
Tick ==
  /\ \/ pc = "await_send" /\ sendFut = "pending"
     \/ pc = "await_json" /\ jsonFut = "pending"
  /\ waited < MaxWait
  /\ waited' = waited + 1
  /\ UNCHANGED <<pc, gets, sendFut, jsonFut, status, body, res, stdout, failure, panicMsg, events>>

Next ==
  \/ Start
  \/ ResponseArrives
  \/ ConnectFails
  \/ PollSend
  \/ BodyCompletes
  \/ BodyFails
  \/ PollJson
  \/ Println
  \/ Tick

Spec == Init /\ [][Next]_vars

\* The executor polls a task whose awaited future has resolved; nothing
\* obliges the peer or the transport to ever resolve one.
FairSpec == Spec /\ WF_vars(PollSend) /\ WF_vars(PollJson) /\ WF_vars(Println)

TypeOK ==
  /\ pc \in {"start", "await_send", "await_json", "print", "done", "panicked"}
  /\ gets \in 0..1
  /\ sendFut \in {"none", "pending", "ok", "err"}
  /\ jsonFut \in {"none", "pending", "bytes", "err"}
  /\ status \in Statuses \cup {0}
  /\ body \in Bodies \cup {NoBody}
  /\ failure \in {"none", "RequestError", "DecodeError"}
  /\ waited \in 0..MaxWait

\* ------------------------------------------------------------- vocabulary
Required == {"data_field", "correct_field_name"}

Terminated == pc \in {"done", "panicked"}

Suspended ==
  \/ pc = "await_send" /\ sendFut = "pending"
  \/ pc = "await_json" /\ jsonFut = "pending"

\* The body received is the text of one whole JSON object.
IsJsonObject(b) == b.kind = "object" /\ b.complete

\* The body received is not the text of any JSON value.
NotJson(b) == b.kind \in {"empty", "html"} \/ (b.kind = "object" /\ ~b.complete)

Occurrences(b, k) == { i \in 1..Len(b.members) : b.members[i].key = k }

HasString(b, k) == \E i \in Occurrences(b, k) : b.members[i].value.type = "string"

AbsentOrNotString(b, k) ==
  \/ Occurrences(b, k) = {}
  \/ \E i \in Occurrences(b, k) : b.members[i].value.type # "string"

OnceAsString(b, k) == Cardinality(Occurrences(b, k)) = 1 /\ HasString(b, k)

StringOf(b, k) == b.members[CHOOSE i \in Occurrences(b, k) : TRUE].value.val

Has(e) == \E i \in 1..Len(events) : events[i] = e

First(e) == CHOOSE i \in 1..Len(events) : events[i] = e /\ \A j \in 1..(i - 1) : events[j] # e

Before(e, f) == Has(e) /\ First(e) < First(f)

\* ------------------------------------------------------------------ claims

\* C1: when the transport fails before any response, the run ends at the
\* first expect with the request failure, with exactly the one GET issued,
\* the body wait never begun, no record decoded and nothing printed.
C1_RequestFailureAborts ==
  sendFut = "err" =>
    /\ gets = 1
    /\ jsonFut = "none"
    /\ ~Has("json_wait")
    /\ res = NoItem
    /\ stdout = <<>>
    /\ \/ pc = "await_send"
       \/ /\ pc = "panicked"
          /\ failure = "RequestError"
          /\ panicMsg = "Failed to send request"

C1_Witness == sendFut = "err" /\ pc = "panicked" /\ status = 0

\* C2: when the body is a JSON object in which a required field is absent or
\* is not a string, the run ends with the decode failure: no ItemDetail, not
\* even a partial one, nothing printed, the request not issued again.
C2_BadFieldIsDecodeError ==
  (/\ jsonFut = "bytes"
   /\ IsJsonObject(body)
   /\ \E k \in Required : AbsentOrNotString(body, k)) =>
    /\ res = NoItem
    /\ stdout = <<>>
    /\ gets = 1
    /\ \/ pc = "await_json"
       \/ /\ pc = "panicked"
          /\ failure = "DecodeError"

C2_Witness ==
  /\ pc = "panicked"
  /\ jsonFut = "bytes"
  /\ IsJsonObject(body)
  /\ HasString(body, "correct_field_name")
  /\ Occurrences(body, "data_field") # {}
  /\ ~HasString(body, "data_field")

\* C3: a body that is not valid JSON is a decode failure of the operation
\* and the running task is not brought down by it.
C3_MalformedBodyNoCrash ==
  (jsonFut = "bytes" /\ NotJson(body) /\ pc # "await_json") =>
    /\ failure = "DecodeError"
    /\ pc # "panicked"

\* C4 as stated: a JSON object holding data_field and correct_field_name as
\* strings always decodes, to a record of two of its string values.
C4_Original ==
  (/\ jsonFut = "bytes"
   /\ IsJsonObject(body)
   /\ \A k \in Required : HasString(body, k)
   /\ pc # "await_json") =>
    /\ pc \in {"print", "done"}
    /\ \E i \in Occurrences(body, "data_field") :
         res.data_field = body.members[i].value.val
    /\ \E i \in Occurrences(body, "correct_field_name") :
         res.correct_field_name = body.members[i].value.val

\* C4: a JSON object in which data_field and correct_field_name each occur
\* exactly once, as strings, decodes to the ItemDetail of exactly those two
\* strings, whatever other members the object carries.
C4_DecodeExact ==
  (/\ jsonFut = "bytes"
   /\ IsJsonObject(body)
   /\ \A k \in Required : OnceAsString(body, k)
   /\ pc # "await_json") =>
    /\ pc \in {"print", "done"}
    /\ failure = "none"
    /\ res = [data_field |-> StringOf(body, "data_field"),
              correct_field_name |-> StringOf(body, "correct_field_name")]

C4_Witness ==
  /\ pc = "print"
  /\ IsJsonObject(body)
  /\ Len(body.members) = 3
  /\ body.members[1] = [key |-> "extra", value |-> [type |-> "number", val |-> "123"]]
  /\ body.members[2] = [key |-> "correct_field_name", value |-> Str("y")]
  /\ body.members[3] = [key |-> "data_field", value |-> Str("x")]
  /\ res = [data_field |-> "x", correct_field_name |-> "y"]

\* C5: a record is printed if and only if the request and the decode both
\* succeeded; then it is printed once and is the record of this response;
\* after either failure nothing is printed and the run ended in a panic.
C5_PrintIffSuccess ==
  /\ Len(stdout) <= 1
  /\ stdout # <<>> =>
       /\ pc = "done"
       /\ sendFut = "ok"
       /\ jsonFut = "bytes"
       /\ Decode(body).ok
       /\ stdout = << DebugFmt(Decode(body).value) >>
  /\ pc = "done" => Len(stdout) = 1
  /\ Terminated =>
       IF sendFut = "ok" /\ jsonFut = "bytes" /\ Decode(body).ok
       THEN pc = "done" /\ failure = "none"
       ELSE pc = "panicked" /\ failure # "none" /\ stdout = <<>>

C5_Witness ==
  /\ pc = "done"
  /\ stdout = << "ItemDetail { data_field: \"x\", correct_field_name: \"y\" }" >>

\* C6: the steps of a run are in sequence: the body wait begins only after
\* the response headers were received, the body wait completes only after
\* it began, and the print happens only after the body wait completed.
C6_Sequential ==
  /\ Has("json_wait") => Before("headers", "json_wait")
  /\ Has("json_done") => Before("json_wait", "json_done")
  /\ Has("print") => Before("json_done", "print")
  /\ jsonFut # "none" => sendFut = "ok"
  /\ stdout # <<>> => Has("json_done")

C6_Witness == Has("print") /\ events = <<"get", "headers", "json_wait", "body", "json_done", "print">>

\* C7: once the connection attempt is refused, the run eventually ends with
\* the request failure.
C7_RefusedEventuallyFails ==
  (sendFut = "err") ~> (pc = "panicked" /\ failure = "RequestError")

C7_Witness == Has("refused") /\ failure = "RequestError" /\ waited = 0

\* C8: there is no timeout: while a wait is pending no step takes the task
\* out of it, however long it lasts; a run that ended did so in one of
\* success, request failure and decode failure, after the environment
\* resolved each wait it went through; and once the environment has
\* resolved the body wait, the run goes on to its end.
C8_Step ==
  Suspended => (pc' = pc /\ failure' = failure /\ stdout' = stdout /\ gets' = gets)

C8_Ended ==
  Terminated =>
    /\ sendFut \in {"ok", "err"}
    /\ sendFut = "ok" => jsonFut \in {"bytes", "err"}
    /\ pc = "done" => failure = "none"
    /\ pc = "panicked" => failure \in {"RequestError", "DecodeError"}

C8_NoTimeout ==
  /\ [][C8_Step]_vars
  /\ [](C8_Ended)
  /\ (jsonFut \in {"bytes", "err"}) ~> Terminated

C8_Witness == Suspended /\ waited = MaxWait /\ pc = "await_json"

C10_BodyLostIsSecondFailure ==
  jsonFut = "err" =>
    /\ stdout = <<>>
    /\ res = NoItem
    /\ \/ pc = "await_json"
       \/ /\ pc = "panicked"
          /\ failure = "DecodeError"
          /\ panicMsg = "Fail to parse response"

C10_Witness == jsonFut = "err" /\ pc = "panicked" /\ Has("body_lost")
====
